---- MODULE Spec2Model ----
(***************************************************************************)
(* A model of flowy-database's DatabaseManager (manager.rs): the editor    *)
(* cache behind a tokio RwLock, open/get/close of database editors, the    *)
(* create_grid / create_grid_block / create_grid_view operations and the   *)
(* make_database_view_data bootstrap routine.                              *)
(***************************************************************************)
EXTENDS Integers, Sequences, FiniteSets, TLC

(***************************************************************************)
(* Bounds of the model.                                                    *)
(***************************************************************************)
\* Total number of manager calls (open / get / close / create_*) in a run.
MaxCalls == 4

\* Concurrent callers of the manager (tasks on the tokio thread pool).
Procs == {"p1", "p2"}

\* Object ids (database ids, block ids and view ids are all strings).
Ids == {"a", "b"}

\* Editors are identified by the order of their construction.
Editors == 1..MaxCalls

NoProc == "none"
NoEditor == 0

\* Blocks of a build context and rows of a block, at most.
MaxBlocks == 2
MaxRows == 2

\* The ids of the blocks of a build context, in the order of the blocks.
BlockIdPool == <<"k1", "k2", "k3", "k4">>
BlockIds == {BlockIdPool[i] : i \in 1..MaxBlocks}
NoBlock == "none"

(***************************************************************************)
(* FlowyResult<T>: Ok(v) or Err(e).                                        *)
(***************************************************************************)
Unit == NoEditor
Ok(v) == [ok |-> TRUE, val |-> v, err |-> "none"]
Err(e) == [ok |-> FALSE, val |-> NoEditor, err |-> e]
NoResult == [ok |-> FALSE, val |-> NoEditor, err |-> "pending"]

(***************************************************************************)
(* What the collaborators answer during one call: grid_user.db_pool(),     *)
(* grid_user.user_id(), and the last fallible step of the call             *)
(* (DatabaseRevisionEditor::new for an open, reset_object for a create).   *)
(***************************************************************************)
NoEnv == [pool |-> TRUE, user |-> TRUE, last |-> "none"]
ResetErrs == {"ResetIoErr", "ResetConflictErr"}
OpenEnvs == [pool : BOOLEAN, user : BOOLEAN, last : {"ok", "EditorErr"}]
CreateEnvs == [pool : BOOLEAN, user : BOOLEAN, last : {"ok"} \cup ResetErrs]

\* A revision of object id carrying payload bytes.
Revision(id, bytes) == [object_id |-> id, bytes |-> bytes]

\* The id and the revision sequences the create_* operations are called with,
\* when the calls run beside open / get / close calls.
OneId == {"a"}

OneRevSeq(id) == { <<Revision(id, "x")>> }

\* What the collaborators answer to a create_* call beside open / get / close
\* calls: success, a storage failure in reset_object.
FewEnvs ==
    { [pool |-> TRUE, user |-> TRUE, last |-> "ok"],
      [pool |-> TRUE, user |-> TRUE, last |-> "ResetIoErr"] }

\* The revision sequences the create_* operations are called with, when only
\* create_* calls run.
RevSeqs(id) ==
    { <<Revision(id, "x")>>,
      <<Revision(id, "x"), Revision(id, "y")>>,
      <<Revision(id, "y"), Revision(id, "x")>> }

VARIABLES
    grid_editors,   \* RefCountHashMap: id -> [editor, ref_count]
    writer,         \* the task holding the RwLock's write guard, or NoProc
    readers,        \* the tasks holding a read guard of the RwLock
    constructed,    \* number of DatabaseRevisionEditor::new calls that succeeded
    editor_id,      \* editor -> the database id it was constructed for
    pending,        \* editors whose spawned did_remove task has not run yet
    closed,         \* editor -> number of times did_remove -> close() ran on it
    grid_revs,      \* database id -> its revision log
    block_revs,     \* block id -> its revision log
    view_revs,      \* view id -> its revision log
    reset_calls,    \* number of reset_object invocations so far
    pc,             \* task -> its position in the handler it runs
    op,             \* task -> the operation of its current call
    arg,            \* task -> the id argument of its current call
    revs,           \* task -> the revisions argument of its create_* call
    env,            \* task -> what the session and the storage answer to its call
    found,          \* task -> the editor its cache lookup returned (or NoEditor)
    made,           \* task -> the editor it constructed in this call (or NoEditor)
    mig,            \* task -> outcome of run_v1_migration in this call
    result,         \* task -> the value its last call returned
    calls,          \* number of calls started so far
    \* history of the calls, read by the properties only
    fresh,          \* task -> no editor was registered for arg and no close_database(arg)
                    \*         was running when its call started, nor called since
    expect,         \* task -> held[arg] when its open / get call started
    held,           \* id -> editors open_database returned since close_database(id)
                    \*       was last called or running
    owed,           \* id -> successful open_database returns not yet matched by a remove
    \* make_database_view_data
    view_id,        \* its view_id argument
    layout,         \* its layout argument
    build_context,  \* its build_context argument
    block_index,    \* BlockIndexCache: row id -> block id
    boot_pc,        \* its position: "blocks", "grid", "view", "done" ("idle": not called)
    block_i,        \* the block the loop over the blocks is at
    row_i,          \* the row the loop over that block's rows is at
    boot_result,    \* the value it returned
    boot_log        \* history: the index writes and the commits it attempted, in order

cacheVars == <<grid_editors, writer, readers, constructed, editor_id, pending, closed>>
logVars == <<grid_revs, block_revs, view_revs, reset_calls>>
procVars == <<pc, op, arg, revs, env, found, made, mig, result, calls>>
histVars == <<fresh, expect, held, owed>>
bootVars == <<view_id, layout, build_context, block_index, boot_pc, block_i, row_i,
              boot_result, boot_log>>
vars == <<cacheVars, logVars, procVars, histVars, bootVars>>

(***************************************************************************)
(* lib_infra::ref_map::RefCountHashMap                                     *)
(***************************************************************************)
NoEntry == [editor |-> NoEditor, ref_count |-> 0]

\* RefCountHashMap::get: a lookup, no change of the map.
Get(map, id) == map[id].editor

\* RefCountHashMap::insert: registers the handle under id, one more reference.
Insert(map, id, e) ==
    [map EXCEPT ![id] = [editor |-> e, ref_count |-> map[id].ref_count + 1]]

\* RefCountHashMap::remove: one reference less; the entry leaves the map when
\* the count reaches zero.
Remove(map, id) ==
    IF map[id].editor = NoEditor THEN map
    ELSE IF map[id].ref_count > 1
         THEN [map EXCEPT ![id].ref_count = @ - 1]
         ELSE [map EXCEPT ![id] = NoEntry]

\* The handle RefCountHashMap::remove evicts (its did_remove is then spawned).
Evicted(map, id) ==
    IF map[id].editor # NoEditor /\ map[id].ref_count <= 1
    THEN {map[id].editor}
    ELSE {}

(***************************************************************************)
(* flowy_revision::RevisionManager::reset_object                           *)
(***************************************************************************)
\* The log of id becomes exactly rs, whatever it held before.
ResetObject(log, id, rs) == [log EXCEPT ![id] = rs]

(***************************************************************************)
(* DatabaseManager::new                                                    *)
(***************************************************************************)
\* No editor is cached and no call runs.
InitManager ==
    /\ grid_editors = [id \in Ids |-> NoEntry]
    /\ writer = NoProc
    /\ readers = {}
    /\ constructed = 0
    /\ editor_id = [e \in Editors |-> "none"]
    /\ pending = {}
    /\ closed = [e \in Editors |-> 0]
    /\ reset_calls = 0
    /\ pc = [p \in Procs |-> "idle"]
    /\ op = [p \in Procs |-> "none"]
    /\ arg = [p \in Procs |-> "none"]
    /\ revs = [p \in Procs |-> <<>>]
    /\ env = [p \in Procs |-> NoEnv]
    /\ found = [p \in Procs |-> NoEditor]
    /\ made = [p \in Procs |-> NoEditor]
    /\ mig = [p \in Procs |-> TRUE]
    /\ result = [p \in Procs |-> NoResult]
    /\ calls = 0
    /\ fresh = [p \in Procs |-> FALSE]
    /\ expect = [p \in Procs |-> {}]
    /\ held = [id \in Ids |-> {}]
    /\ owed = [id \in Ids |-> 0]

\* The row ids a build context may hold: row j of block i.
AllRowIds == (1..MaxBlocks) \X (1..MaxRows)

NoBytes == [kind |-> "none"]
BootOk(bytes) == [ok |-> TRUE, bytes |-> bytes, err |-> "none"]
BootErr(e) == [ok |-> FALSE, bytes |-> NoBytes, err |-> e]
NoBootResult == [ok |-> FALSE, bytes |-> NoBytes, err |-> "pending"]
NoContext == [field_revs |-> <<>>, block_metas |-> <<>>, blocks |-> <<>>,
              grid_view_revision_data |-> <<>>]

Init ==
    /\ InitManager
    /\ grid_revs = [id \in Ids |-> <<>>]
    /\ block_revs = [id \in Ids \cup BlockIds |-> <<>>]
    /\ view_revs = [id \in Ids |-> <<>>]
    /\ view_id = "none"
    /\ layout = "none"
    /\ build_context = NoContext
    /\ block_index = [r \in AllRowIds |-> NoBlock]
    /\ boot_pc = "idle"
    /\ block_i = 1
    /\ row_i = 1
    /\ boot_result = NoBootResult
    /\ boot_log = <<>>

\* A close_database(id) call is running.
CloseRunning(id) == \E q \in Procs : op[q] = "close" /\ arg[q] = id

\* A task starts the call o(id, rs) of the manager; en is what the session
\* and the storage will answer to a create_* call.
Call(p, o, id, rs, en, start) ==
    /\ pc[p] = "idle"
    /\ calls < MaxCalls
    /\ calls' = calls + 1
    /\ pc' = [pc EXCEPT ![p] = start]
    /\ op' = [op EXCEPT ![p] = o]
    /\ arg' = [arg EXCEPT ![p] = id]
    /\ revs' = [revs EXCEPT ![p] = rs]
    /\ env' = [env EXCEPT ![p] = en]
    /\ IF o = "close"
       THEN /\ held' = [held EXCEPT ![id] = {}]
            /\ expect' = [q \in Procs |-> IF arg[q] = id THEN {} ELSE expect[q]]
            /\ fresh' = [q \in Procs |-> IF arg[q] = id THEN FALSE ELSE fresh[q]]
       ELSE /\ held' = held
            /\ expect' = [expect EXCEPT ![p] = held[id]]
            /\ fresh' = [fresh EXCEPT ![p] =
                            Get(grid_editors, id) = NoEditor /\ ~CloseRunning(id)]
    /\ result' = [result EXCEPT ![p] = NoResult]
    /\ UNCHANGED <<cacheVars, logVars, found, made, mig, owed, bootVars>>

\* The task is inside open_database, called by its caller or by
\* get_database_editor after a miss.
InOpenDatabase(p) ==
    pc[p] \in {"open_mig", "goc_read", "goc_check", "goc_write", "goc_make", "goc_insert"}

\* A call returns r to its caller; the task is free for its next call.
Return(p, r) ==
    /\ pc' = [pc EXCEPT ![p] = "idle"]
    /\ result' = [result EXCEPT ![p] = r]
    /\ op' = [op EXCEPT ![p] = "none"]
    /\ arg' = [arg EXCEPT ![p] = "none"]
    /\ revs' = [revs EXCEPT ![p] = <<>>]
    /\ env' = [env EXCEPT ![p] = NoEnv]
    /\ found' = [found EXCEPT ![p] = NoEditor]
    /\ made' = [made EXCEPT ![p] = NoEditor]
    /\ mig' = [mig EXCEPT ![p] = TRUE]
    /\ fresh' = [fresh EXCEPT ![p] = FALSE]
    /\ expect' = [expect EXCEPT ![p] = {}]
    /\ held' = IF InOpenDatabase(p) /\ r.ok /\ ~CloseRunning(arg[p])
               THEN [held EXCEPT ![arg[p]] = @ \cup {r.val}]
               ELSE held
    /\ owed' = IF InOpenDatabase(p) /\ r.ok
               THEN [owed EXCEPT ![arg[p]] = @ + 1]
               ELSE owed
    /\ UNCHANGED <<calls, bootVars>>

\* A call goes on to its next step.
Goto(p, to) ==
    /\ pc' = [pc EXCEPT ![p] = to]
    /\ UNCHANGED <<result, op, arg, revs, calls, fresh, expect, held, bootVars>>

(***************************************************************************)
(* open_database                                                           *)
(***************************************************************************)
CallOpenDatabase(p) ==
    \E id \in Ids : Call(p, "open", id, <<>>, NoEnv, "open_mig")

\* A variant of the migration step that propagates the migration's failure:
\*     self.migration.run_v1_migration(database_id).await?;
RunV1MigrationPropagated(p) ==
    /\ pc[p] = "open_mig"
    /\ \E migrated \in BOOLEAN :
         IF migrated
         THEN /\ mig' = [mig EXCEPT ![p] = TRUE]
              /\ Goto(p, "goc_read")
              /\ UNCHANGED <<env, found, made, owed>>
         ELSE Return(p, Err("MigrationErr"))
    /\ UNCHANGED <<cacheVars, logVars>>

\* let _ = self.migration.run_v1_migration(database_id).await;
RunV1Migration(p) ==
    /\ pc[p] = "open_mig"
    /\ \E migrated \in BOOLEAN : mig' = [mig EXCEPT ![p] = migrated]
    /\ Goto(p, "goc_read")
    /\ UNCHANGED <<cacheVars, logVars, env, found, made, owed>>

(***************************************************************************)
(* get_or_create_database_editor                                           *)
(***************************************************************************)
\* self.grid_editors.read().await.get(database_id)
GocRead(p) ==
    /\ pc[p] = "goc_read"
    /\ writer = NoProc
    /\ readers' = readers \cup {p}
    /\ found' = [found EXCEPT ![p] = Get(grid_editors, arg[p])]
    /\ Goto(p, "goc_check")
    /\ UNCHANGED <<grid_editors, writer, constructed, editor_id, pending, closed,
                   logVars, env, made, mig, owed>>

\* A variant of the lookup's end that keeps the read guard alive on a miss.
GocCheckKeepsGuard(p) ==
    /\ pc[p] = "goc_check"
    /\ IF found[p] # NoEditor
       THEN readers' = readers \ {p} /\ Return(p, Ok(found[p]))
       ELSE /\ readers' = readers
            /\ Goto(p, "goc_write")
            /\ UNCHANGED <<env, found, made, mig, owed>>
    /\ UNCHANGED <<grid_editors, writer, constructed, editor_id, pending, closed, logVars>>

\* if let Some(editor) = ... { return Ok(editor); }   (the read guard is dropped)
GocCheck(p) ==
    /\ pc[p] = "goc_check"
    /\ readers' = readers \ {p}
    /\ IF found[p] # NoEditor
       THEN Return(p, Ok(found[p]))
       ELSE Goto(p, "goc_write") /\ UNCHANGED <<env, found, made, mig, owed>>
    /\ UNCHANGED <<grid_editors, writer, constructed, editor_id, pending, closed, logVars>>

\* A variant of the write-lock step that does not wait for the lock.
GocWriteUnlocked(p) ==
    /\ pc[p] = "goc_write"
    /\ writer' = p
    /\ \E en \in OpenEnvs : env' = [env EXCEPT ![p] = en]
    /\ Goto(p, "goc_make")
    /\ UNCHANGED <<grid_editors, readers, constructed, editor_id, pending, closed,
                   logVars, found, made, mig, owed>>

\* let mut database_editors = self.grid_editors.write().await;
GocWrite(p) ==
    /\ pc[p] = "goc_write"
    /\ writer = NoProc
    /\ readers = {}
    /\ writer' = p
    /\ \E en \in OpenEnvs : env' = [env EXCEPT ![p] = en]
    /\ Goto(p, "goc_make")
    /\ UNCHANGED <<grid_editors, readers, constructed, editor_id, pending, closed,
                   logVars, found, made, mig, owed>>

\* (env[p] is what db_pool(), user_id() and DatabaseRevisionEditor::new will
\* answer to this task while it holds the write guard.)
\*
\* The outcome of db_pool()?, make_database_rev_manager (user_id()?) and
\* DatabaseRevisionEditor::new(..).await?, in the order the code tries them.
MakeOutcome(en) ==
    IF ~en.pool THEN "PoolErr"
    ELSE IF ~en.user THEN "UserErr"
    ELSE en.last

\* A variant of the construction step whose error path keeps the write guard.
GocMakeKeepsLock(p) ==
    /\ pc[p] = "goc_make"
    /\ IF MakeOutcome(env[p]) = "ok"
       THEN /\ constructed' = constructed + 1
            /\ editor_id' = [editor_id EXCEPT ![constructed + 1] = arg[p]]
            /\ made' = [made EXCEPT ![p] = constructed + 1]
            /\ Goto(p, "goc_insert")
            /\ UNCHANGED <<writer, env, found, mig, owed>>
       ELSE /\ Return(p, Err(MakeOutcome(env[p])))
            /\ UNCHANGED <<writer, constructed, editor_id>>
    /\ UNCHANGED <<grid_editors, readers, pending, closed, logVars>>

\* let db_pool = self.grid_user.db_pool()?;
\* let editor = self.make_database_rev_editor(database_id, db_pool).await?;
GocMake(p) ==
    /\ pc[p] = "goc_make"
    /\ IF MakeOutcome(env[p]) = "ok"
       THEN /\ constructed' = constructed + 1
            /\ editor_id' = [editor_id EXCEPT ![constructed + 1] = arg[p]]
            /\ made' = [made EXCEPT ![p] = constructed + 1]
            /\ Goto(p, "goc_insert")
            /\ UNCHANGED <<writer, env, found, mig, owed>>
       ELSE /\ writer' = NoProc
            /\ Return(p, Err(MakeOutcome(env[p])))
            /\ UNCHANGED <<constructed, editor_id>>
    /\ UNCHANGED <<grid_editors, readers, pending, closed, logVars>>

\* database_editors.insert(database_id.to_string(), editor.clone()); Ok(editor)
GocInsert(p) ==
    /\ pc[p] = "goc_insert"
    /\ grid_editors' = Insert(grid_editors, arg[p], made[p])
    /\ writer' = NoProc
    /\ Return(p, Ok(made[p]))
    /\ UNCHANGED <<readers, constructed, editor_id, pending, closed, logVars>>

(***************************************************************************)
(* close_database                                                          *)
(***************************************************************************)
CallCloseDatabase(p) ==
    \E id \in Ids : Call(p, "close", id, <<>>, NoEnv, "close_write")

\* self.grid_editors.write().await
CloseWrite(p) ==
    /\ pc[p] = "close_write"
    /\ writer = NoProc
    /\ readers = {}
    /\ writer' = p
    /\ Goto(p, "close_remove")
    /\ UNCHANGED <<grid_editors, readers, constructed, editor_id, pending, closed,
                   logVars, env, found, made, mig, owed>>

\* .remove(database_id).await   (the evicted editor's did_remove is spawned)
CloseRemove(p) ==
    /\ pc[p] = "close_remove"
    /\ grid_editors' = Remove(grid_editors, arg[p])
    /\ pending' = pending \cup Evicted(grid_editors, arg[p])
    /\ found' = [found EXCEPT ![p] = Get(grid_editors, arg[p])]
    /\ owed' = [owed EXCEPT ![arg[p]] = IF @ > 0 THEN @ - 1 ELSE 0]
    /\ Goto(p, "close_return")
    /\ UNCHANGED <<writer, readers, constructed, editor_id, closed,
                   logVars, env, made, mig>>

\* A variant of the return of close_database that reports a missing entry.
CloseReturnStrict(p) ==
    /\ pc[p] = "close_return"
    /\ writer' = NoProc
    /\ Return(p, IF found[p] = NoEditor THEN Err("RecordNotFound") ELSE Ok(Unit))
    /\ UNCHANGED <<grid_editors, readers, constructed, editor_id, pending, closed, logVars>>

\* the write guard is dropped at the end of the statement; Ok(())
CloseReturn(p) ==
    /\ pc[p] = "close_return"
    /\ writer' = NoProc
    /\ Return(p, Ok(Unit))
    /\ UNCHANGED <<grid_editors, readers, constructed, editor_id, pending, closed, logVars>>

(***************************************************************************)
(* get_database_editor                                                     *)
(***************************************************************************)
CallGetDatabaseEditor(p) ==
    \E id \in Ids : Call(p, "get", id, <<>>, NoEnv, "get_read")

\* let read_guard = self.grid_editors.read().await;
\* let editor = read_guard.get(database_id);
GetRead(p) ==
    /\ pc[p] = "get_read"
    /\ writer = NoProc
    /\ readers' = readers \cup {p}
    /\ found' = [found EXCEPT ![p] = Get(grid_editors, arg[p])]
    /\ Goto(p, "get_match")
    /\ UNCHANGED <<grid_editors, writer, constructed, editor_id, pending, closed,
                   logVars, env, made, mig, owed>>

\* A variant of get_database_editor that runs the open path whatever the
\* lookup found.
GetMatchAlwaysOpens(p) ==
    /\ pc[p] = "get_match"
    /\ readers' = readers \ {p}
    /\ Goto(p, "open_mig")
    /\ UNCHANGED <<env, found, made, mig, owed>>
    /\ UNCHANGED <<grid_editors, writer, constructed, editor_id, pending, closed, logVars>>

\* match editor { None => { drop(read_guard); self.open_database(..).await }
\*                Some(editor) => Ok(editor) }
GetMatch(p) ==
    /\ pc[p] = "get_match"
    /\ readers' = readers \ {p}
    /\ IF found[p] = NoEditor
       THEN Goto(p, "open_mig") /\ UNCHANGED <<env, found, made, mig, owed>>
       ELSE Return(p, Ok(found[p]))
    /\ UNCHANGED <<grid_editors, writer, constructed, editor_id, pending, closed, logVars>>

(***************************************************************************)
(* impl RefCountValue for DatabaseRevisionEditor                           *)
(***************************************************************************)
\* async fn did_remove(&self) { self.close().await; }
DidRemove(e) ==
    /\ e \in pending
    /\ pending' = pending \ {e}
    /\ closed' = [closed EXCEPT ![e] = @ + 1]
    /\ UNCHANGED <<grid_editors, writer, readers, constructed, editor_id,
                   logVars, procVars, histVars, bootVars>>

(***************************************************************************)
(* create_grid, create_grid_view, create_grid_block                        *)
(***************************************************************************)
\* let db_pool = self.grid_user.db_pool()?;
\* let rev_manager = self.make_database_rev_manager(grid_id, db_pool)?;   (user_id()?)
\* rev_manager.reset_object(revisions).await?;
CreateGridOutcome(en) ==
    IF ~en.pool THEN "PoolErr"
    ELSE IF ~en.user THEN "UserErr"
    ELSE en.last

\* A variant of create_grid that resets the log before it asks for the user id.
CreateGridResetsEarly(en) == IF en.pool THEN 1 ELSE 0

\* reset_object is invoked by create_grid when the pool and the user id were there.
CreateGridResets(en) == IF en.pool /\ en.user THEN 1 ELSE 0

\* make_grid_view_rev_manager / make_grid_block_rev_manager: needs the user's
\* id and storage pool.
RevManagerOutcome(en) ==
    IF ~en.user THEN "UserErr"
    ELSE IF ~en.pool THEN "PoolErr"
    ELSE "ok"

\* let rev_manager = make_grid_.._rev_manager(&self.grid_user, id)?;
\* rev_manager.reset_object(revisions).await?;
CreateSubOutcome(en) ==
    IF RevManagerOutcome(en) # "ok" THEN RevManagerOutcome(en) ELSE en.last

\* reset_object is invoked by create_grid_view / create_grid_block when the
\* revision manager could be built.
CreateSubResets(en) == IF RevManagerOutcome(en) = "ok" THEN 1 ELSE 0

\* Ok(()) at the end of a create_*, or the error `?` returned early.
CreateResult(out) == IF out = "ok" THEN Ok(Unit) ELSE Err(out)

\* The log after reset_object was invoked n times with rs and answered out.
LogAfter(log, id, rs, n, out) ==
    IF n > 0 /\ out = "ok" THEN ResetObject(log, id, rs) ELSE log

CallCreateGrid(p, ids, seqs, envs) ==
    \E id \in ids : \E rs \in seqs[id], en \in envs :
        Call(p, "create_grid", id, rs, en, "create_grid")

\* A variant of create_grid that also builds an editor and registers it.
CreateGridCaching(p) ==
    /\ pc[p] = "create_grid"
    /\ LET out == CreateGridOutcome(env[p])
           n == CreateGridResets(env[p])
       IN
         /\ grid_revs' = LogAfter(grid_revs, arg[p], revs[p], n, out)
         /\ reset_calls' = n
         /\ Return(p, CreateResult(out))
         /\ IF out = "ok"
            THEN /\ constructed' = constructed + 1
                 /\ editor_id' = [editor_id EXCEPT ![constructed + 1] = arg[p]]
                 /\ grid_editors' = Insert(grid_editors, arg[p], constructed + 1)
            ELSE UNCHANGED <<constructed, editor_id, grid_editors>>
    /\ UNCHANGED <<writer, readers, pending, closed, block_revs, view_revs>>

CreateGrid(p) ==
    /\ pc[p] = "create_grid"
    /\ LET out == CreateGridOutcome(env[p])
           n == CreateGridResets(env[p])
       IN
         /\ grid_revs' = LogAfter(grid_revs, arg[p], revs[p], n, out)
         /\ reset_calls' = n
         /\ Return(p, CreateResult(out))
    /\ UNCHANGED <<cacheVars, block_revs, view_revs>>

CallCreateGridView(p, ids, seqs, envs) ==
    \E id \in ids : \E rs \in seqs[id], en \in envs :
        Call(p, "create_view", id, rs, en, "create_view")

CreateGridView(p) ==
    /\ pc[p] = "create_view"
    /\ LET out == CreateSubOutcome(env[p])
           n == CreateSubResets(env[p])
       IN
         /\ view_revs' = LogAfter(view_revs, arg[p], revs[p], n, out)
         /\ reset_calls' = n
         /\ Return(p, CreateResult(out))
    /\ UNCHANGED <<cacheVars, grid_revs, block_revs>>

CallCreateGridBlock(p, ids, seqs, envs) ==
    \E id \in ids : \E rs \in seqs[id], en \in envs :
        Call(p, "create_block", id, rs, en, "create_block")

CreateGridBlock(p) ==
    /\ pc[p] = "create_block"
    /\ LET out == CreateSubOutcome(env[p])
           n == CreateSubResets(env[p])
       IN
         /\ block_revs' = LogAfter(block_revs, arg[p], revs[p], n, out)
         /\ reset_calls' = n
         /\ Return(p, CreateResult(out))
    /\ UNCHANGED <<cacheVars, grid_revs, view_revs>>

Next ==
    \/ \E p \in Procs : CallOpenDatabase(p)
    \/ \E p \in Procs : RunV1Migration(p)
    \/ \E p \in Procs : GocRead(p)
    \/ \E p \in Procs : GocCheck(p)
    \/ \E p \in Procs : GocWrite(p)
    \/ \E p \in Procs : GocMake(p)
    \/ \E p \in Procs : GocInsert(p)
    \/ \E p \in Procs : CallCloseDatabase(p)
    \/ \E p \in Procs : CloseWrite(p)
    \/ \E p \in Procs : CloseRemove(p)
    \/ \E p \in Procs : CloseReturn(p)
    \/ \E p \in Procs : CallGetDatabaseEditor(p)
    \/ \E p \in Procs : GetRead(p)
    \/ \E p \in Procs : GetMatch(p)
    \/ \E e \in Editors : DidRemove(e)
    \/ \E p \in Procs : CallCreateGrid(p, OneId, [id \in Ids |-> OneRevSeq(id)], FewEnvs)
    \/ \E p \in Procs : CreateGrid(p)
    \/ \E p \in Procs : CallCreateGridView(p, OneId, [id \in Ids |-> OneRevSeq(id)], FewEnvs)
    \/ \E p \in Procs : CreateGridView(p)
    \/ \E p \in Procs : CallCreateGridBlock(p, OneId, [id \in Ids |-> OneRevSeq(id)], FewEnvs)
    \/ \E p \in Procs : CreateGridBlock(p)

Spec == Init /\ [][Next]_vars

(***************************************************************************)
(* create_grid alone, by one caller, over every input.                     *)
(***************************************************************************)
(***************************************************************************)
(* open / get / close under fair scheduling.  The tokio runtime polls every *)
(* ready task again, and tokio's RwLock queues its waiters fairly (FIFO),   *)
(* so a waiter that can take the lock again and again does take it; the     *)
(* migration, the storage pool and the construction of an editor are taken  *)
(* to terminate.  Callers need not call.                                    *)
(***************************************************************************)
\* The steps of task p that wait for the cache's lock.
LockStep(p) == GocRead(p) \/ GetRead(p) \/ GocWrite(p) \/ CloseWrite(p)

\* The steps of task p that wait for nothing but the scheduler.
RunStep(p) ==
    \/ RunV1Migration(p)
    \/ GocCheck(p)
    \/ GocMake(p)
    \/ GocInsert(p)
    \/ CloseRemove(p)
    \/ CloseReturn(p)
    \/ GetMatch(p)

\* Calls made in a run under fair scheduling, at most.
MaxLiveCalls == 3

NextLive ==
    \/ \E p \in Procs : calls < MaxLiveCalls /\ CallOpenDatabase(p)
    \/ \E p \in Procs : RunV1Migration(p)
    \/ \E p \in Procs : GocRead(p)
    \/ \E p \in Procs : GocCheck(p)
    \/ \E p \in Procs : GocWrite(p)
    \/ \E p \in Procs : GocMake(p)
    \/ \E p \in Procs : GocInsert(p)
    \/ \E p \in Procs : calls < MaxLiveCalls /\ CallCloseDatabase(p)
    \/ \E p \in Procs : CloseWrite(p)
    \/ \E p \in Procs : CloseRemove(p)
    \/ \E p \in Procs : CloseReturn(p)
    \/ \E p \in Procs : calls < MaxLiveCalls /\ CallGetDatabaseEditor(p)
    \/ \E p \in Procs : GetRead(p)
    \/ \E p \in Procs : GetMatch(p)
    \/ \E e \in Editors : DidRemove(e)

Fairness ==
    /\ \A p \in Procs : SF_vars(LockStep(p))
    /\ \A p \in Procs : WF_vars(RunStep(p))
    /\ \A e \in Editors : WF_vars(DidRemove(e))

SpecLive == Init /\ [][NextLive]_vars /\ Fairness

Creator == "p1"

NextCreate ==
    \/ CallCreateGrid(Creator, Ids, [id \in Ids |-> RevSeqs(id)], CreateEnvs)
    \/ CreateGrid(Creator)

SpecCreate == Init /\ [][NextCreate]_vars

(***************************************************************************)
(* make_database_view_data                                                 *)
(***************************************************************************)
\* The rows of a block record the id of their block.
RowRevision(i, j) == [id |-> <<i, j>>, block_id |-> BlockIdPool[i]]

\* Block i of a build context, with n rows.
BlockRevision(i, n) ==
    [block_id |-> BlockIdPool[i], rows |-> [j \in 1..n |-> RowRevision(i, j)]]

Layouts == {"Grid", "Board"}

\* DatabaseViewRevision::new(grid_id, view_id, layout)
ViewNew(gid, vid, lay) == [view_id |-> vid, grid_id |-> gid, layout |-> lay]

\* A serialized view is the token sequence { view_id grid_id layout }.
ToJson(view) == <<"{", view.view_id, view.grid_id, view.layout, "}">>

\* DatabaseViewRevision::from_json: the view a well-formed payload encodes,
\* a parse error for any other payload.
FromJson(data) ==
    IF /\ Len(data) = 5
       /\ data[1] = "{"
       /\ data[5] = "}"
       /\ data[4] \in Layouts
    THEN [ok |-> TRUE, view |-> ViewNew(data[3], data[2], data[4]), err |-> "none"]
    ELSE [ok |-> FALSE, view |-> ViewNew("none", "none", "none"), err |-> "ParseErr"]

\* The serialized views a build context carries: none, the view of another
\* database, a truncated one.
ViewPayloads ==
    { <<>>,
      ToJson(ViewNew("b", "b", "Board")),
      <<"{", "b", "b">> }

\* The build contexts: up to MaxBlocks blocks of up to MaxRows rows each.
BuildGridContexts ==
    UNION { { [field_revs |-> <<"f1">>,
               block_metas |-> [i \in 1..nb |-> BlockIdPool[i]],
               blocks |-> [i \in 1..nb |-> BlockRevision(i, f[i])],
               grid_view_revision_data |-> d] :
              f \in [1..nb -> 0..MaxRows], d \in ViewPayloads } :
            nb \in 0..MaxBlocks }

\* What a log holds from an earlier life of its object.
StaleLog(id) == << Revision(id, [kind |-> "stale"]), Revision(id, [kind |-> "stale"]) >>

\* make_grid_block_operations(block).json_bytes()
BlockDeltaBytes(block) ==
    [kind |-> "block", block_id |-> block.block_id,
     rows |-> [j \in 1..Len(block.rows) |-> block.rows[j].id]]

\* make_database_operations(DatabaseRevision::from_build_context(..)).json_bytes()
GridDeltaBytes(gid, fields, metas) ==
    [kind |-> "grid", grid_id |-> gid, fields |-> fields, blocks |-> metas]

\* make_grid_view_operations(view).json_bytes()
ViewDeltaBytes(view) == [kind |-> "view", view |-> view]

\* Revision::initial_revision(object_id, bytes), as the only element of a vec.
InitialRevisions(id, bytes) == << Revision(id, bytes) >>

\* BlockIndexCache::insert(block_id, row_id): the entry of the row, when the
\* write succeeds.
BlockIndexInsert(index, bid, rid, ok) ==
    IF ok THEN [index EXCEPT ![rid] = bid] ELSE index

\* An entry of the history.
Event(kind, id, row, ok) == [kind |-> kind, id |-> id, row |-> row, ok |-> ok]

\* The entry of a commit (a create_* call) that answered out.
CommitEvent(kind, id, out) ==
    [kind |-> kind, id |-> id, row |-> <<>>, ok |-> out = "ok", err |-> out]

\* make_database_view_data is called, some logs holding an earlier history.
InitBoot ==
    /\ InitManager
    /\ \E stale \in BOOLEAN :
         /\ grid_revs = [id \in Ids |-> IF stale THEN StaleLog(id) ELSE <<>>]
         /\ block_revs = [id \in Ids \cup BlockIds |-> IF stale THEN StaleLog(id) ELSE <<>>]
         /\ view_revs = [id \in Ids |-> IF stale THEN StaleLog(id) ELSE <<>>]
    /\ view_id \in Ids
    /\ layout \in Layouts
    /\ build_context \in BuildGridContexts
    /\ block_index = [r \in AllRowIds |-> NoBlock]
    /\ boot_pc = "blocks"
    /\ block_i = 1
    /\ row_i = 1
    /\ boot_result = NoBootResult
    /\ boot_log = <<>>

\* The block the loop is at.
ThisBlock == build_context.blocks[block_i]

\* A step of make_database_view_data that returns the error e.
BootFail(e) ==
    /\ boot_pc' = "done"
    /\ boot_result' = BootErr(e)

\* A variant of the indexing that stops after the first row of a block.
BootIndexRowFirstOnly ==
    /\ boot_pc = "blocks"
    /\ block_i <= Len(build_context.blocks)
    /\ row_i <= Len(ThisBlock.rows)
    /\ \E ok \in BOOLEAN :
         /\ block_index' = BlockIndexInsert(block_index, ThisBlock.rows[row_i].block_id,
                                            ThisBlock.rows[row_i].id, ok)
         /\ boot_log' = Append(boot_log, Event("index", ThisBlock.rows[row_i].block_id,
                                               ThisBlock.rows[row_i].id, ok))
    /\ row_i' = Len(ThisBlock.rows) + 1
    /\ UNCHANGED <<cacheVars, logVars, procVars, histVars,
                   view_id, layout, build_context, boot_pc, block_i, boot_result>>

\* A variant of the indexing that returns the error of a failed index write:
\*     grid_manager.block_index_cache.insert(&row.block_id, &row.id)?;
BootIndexRowChecked ==
    /\ boot_pc = "blocks"
    /\ block_i <= Len(build_context.blocks)
    /\ row_i <= Len(ThisBlock.rows)
    /\ \E ok \in BOOLEAN :
         /\ block_index' = BlockIndexInsert(block_index, ThisBlock.rows[row_i].block_id,
                                            ThisBlock.rows[row_i].id, ok)
         /\ boot_log' = Append(boot_log, Event("index", ThisBlock.rows[row_i].block_id,
                                               ThisBlock.rows[row_i].id, ok))
         /\ IF ok
            THEN row_i' = row_i + 1 /\ UNCHANGED <<boot_pc, boot_result>>
            ELSE BootFail("IndexErr") /\ UNCHANGED row_i
    /\ UNCHANGED <<cacheVars, logVars, procVars, histVars,
                   view_id, layout, build_context, block_i>>

\* block_meta_data.rows.iter().for_each(|row| {
\*     let _ = grid_manager.block_index_cache.insert(&row.block_id, &row.id); });
\* one row at a step; the result of the write is dropped.
BootIndexRow ==
    /\ boot_pc = "blocks"
    /\ block_i <= Len(build_context.blocks)
    /\ row_i <= Len(ThisBlock.rows)
    /\ \E ok \in BOOLEAN :
         /\ block_index' = BlockIndexInsert(block_index, ThisBlock.rows[row_i].block_id,
                                            ThisBlock.rows[row_i].id, ok)
         /\ boot_log' = Append(boot_log, Event("index", ThisBlock.rows[row_i].block_id,
                                               ThisBlock.rows[row_i].id, ok))
    /\ row_i' = row_i + 1
    /\ UNCHANGED <<cacheVars, logVars, procVars, histVars,
                   view_id, layout, build_context, boot_pc, block_i, boot_result>>

\* A variant of the block's commit that drops its error and goes on:
\*     let _ = grid_manager.create_grid_block(&block_id, vec![revision]).await;
BootCreateGridBlockLenient ==
    /\ boot_pc = "blocks"
    /\ block_i <= Len(build_context.blocks)
    /\ row_i > Len(ThisBlock.rows)
    /\ \E en \in CreateEnvs :
         LET out == CreateSubOutcome(en)
             n == CreateSubResets(en)
             id == ThisBlock.block_id
         IN
           /\ block_revs' = LogAfter(block_revs, id,
                                     InitialRevisions(id, BlockDeltaBytes(ThisBlock)), n, out)
           /\ reset_calls' = n
           /\ boot_log' = Append(boot_log, CommitEvent("block", id, out))
           /\ block_i' = block_i + 1
           /\ row_i' = 1
           /\ UNCHANGED <<boot_pc, boot_result>>
    /\ UNCHANGED <<cacheVars, grid_revs, view_revs, procVars, histVars,
                   view_id, layout, build_context, block_index>>

\* let revision = Revision::initial_revision(block_id, block_delta_data);
\* grid_manager.create_grid_block(&block_id, vec![revision]).await?;
BootCreateGridBlock ==
    /\ boot_pc = "blocks"
    /\ block_i <= Len(build_context.blocks)
    /\ row_i > Len(ThisBlock.rows)
    /\ \E en \in CreateEnvs :
         LET out == CreateSubOutcome(en)
             n == CreateSubResets(en)
             id == ThisBlock.block_id
         IN
           /\ block_revs' = LogAfter(block_revs, id,
                                     InitialRevisions(id, BlockDeltaBytes(ThisBlock)), n, out)
           /\ reset_calls' = n
           /\ boot_log' = Append(boot_log, CommitEvent("block", id, out))
           /\ IF out = "ok"
              THEN /\ block_i' = block_i + 1
                   /\ row_i' = 1
                   /\ UNCHANGED <<boot_pc, boot_result>>
              ELSE /\ BootFail(out)
                   /\ UNCHANGED <<block_i, row_i>>
    /\ UNCHANGED <<cacheVars, grid_revs, view_revs, procVars, histVars,
                   view_id, layout, build_context, block_index>>

\* A variant of the loop that may be left before its last block.
BootBlocksDoneEarly ==
    /\ boot_pc = "blocks"
    /\ row_i = 1
    /\ boot_pc' = "grid"
    /\ UNCHANGED <<cacheVars, logVars, procVars, histVars,
                   view_id, layout, build_context, block_index, block_i, row_i,
                   boot_result, boot_log>>

\* the loop over the blocks is over
BootBlocksDone ==
    /\ boot_pc = "blocks"
    /\ block_i > Len(build_context.blocks)
    /\ boot_pc' = "grid"
    /\ UNCHANGED <<cacheVars, logVars, procVars, histVars,
                   view_id, layout, build_context, block_index, block_i, row_i,
                   boot_result, boot_log>>

\* let grid_id = view_id.to_owned();
GridId == view_id

\* let grid_rev = DatabaseRevision::from_build_context(&grid_id, field_revs, block_metas);
\* let grid_rev_delta_bytes = make_database_operations(&grid_rev).json_bytes();
GridRevDeltaBytes ==
    GridDeltaBytes(GridId, build_context.field_revs, build_context.block_metas)

\* let revision = Revision::initial_revision(&grid_id, grid_rev_delta_bytes.clone());
\* grid_manager.create_grid(&grid_id, vec![revision]).await?;
BootCreateGrid ==
    /\ boot_pc = "grid"
    /\ \E en \in CreateEnvs :
         LET out == CreateGridOutcome(en)
             n == CreateGridResets(en)
         IN
           /\ grid_revs' = LogAfter(grid_revs, GridId,
                                    InitialRevisions(GridId, GridRevDeltaBytes), n, out)
           /\ reset_calls' = n
           /\ boot_log' = Append(boot_log, CommitEvent("grid", GridId, out))
           /\ IF out = "ok"
              THEN boot_pc' = "view" /\ UNCHANGED boot_result
              ELSE BootFail(out)
    /\ UNCHANGED <<cacheVars, block_revs, view_revs, procVars, histVars,
                   view_id, layout, build_context, block_index, block_i, row_i>>

\* A variant of the view's resolution that falls back to the default view
\* when the payload does not parse.
GridViewLenient(data, gid, vid, lay) ==
    IF data = <<>> \/ ~FromJson(data).ok
    THEN [ok |-> TRUE, view |-> ViewNew(gid, vid, lay), err |-> "none"]
    ELSE FromJson(data)

\* let grid_view = if grid_view_revision_data.is_empty() {
\*     DatabaseViewRevision::new(grid_id, view_id.to_owned(), layout.into())
\* } else { DatabaseViewRevision::from_json(grid_view_revision_data)? };
GridView(data, gid, vid, lay) ==
    IF data = <<>>
    THEN [ok |-> TRUE, view |-> ViewNew(gid, vid, lay), err |-> "none"]
    ELSE FromJson(data)

\* let revision = Revision::initial_revision(view_id, grid_view_delta_bytes);
\* grid_manager.create_grid_view(view_id, vec![revision]).await?;
\* Ok(grid_rev_delta_bytes)
BootCreateGridView ==
    /\ boot_pc = "view"
    /\ LET grid_view == GridView(build_context.grid_view_revision_data,
                                 GridId, view_id, layout)
       IN
         IF ~grid_view.ok
         THEN /\ BootFail(grid_view.err)
              /\ UNCHANGED <<view_revs, reset_calls, boot_log>>
         ELSE \E en \in CreateEnvs :
                LET out == CreateSubOutcome(en)
                    n == CreateSubResets(en)
                IN
                  /\ view_revs' = LogAfter(view_revs, view_id,
                                           InitialRevisions(view_id, ViewDeltaBytes(grid_view.view)),
                                           n, out)
                  /\ reset_calls' = n
                  /\ boot_log' = Append(boot_log, CommitEvent("view", view_id, out))
                  /\ IF out = "ok"
                     THEN /\ boot_pc' = "done"
                          /\ boot_result' = BootOk(GridRevDeltaBytes)
                     ELSE BootFail(out)
    /\ UNCHANGED <<cacheVars, grid_revs, block_revs, procVars, histVars,
                   view_id, layout, build_context, block_index, block_i, row_i>>

NextBoot ==
    \/ BootIndexRow
    \/ BootCreateGridBlock
    \/ BootBlocksDone
    \/ BootCreateGrid
    \/ BootCreateGridView

SpecBoot == InitBoot /\ [][NextBoot]_vars

(***************************************************************************)
(* Properties of the editor cache.                                         *)
(***************************************************************************)
\* Task p takes a step of its current call.
Steps(p) == pc'[p] # pc[p]

\* Task p returns from its call in this step.
Returns(p) == pc[p] # "idle" /\ pc'[p] = "idle"

\* The editors constructed for id so far.
EditorsOf(id) == {e \in 1..constructed : editor_id[e] = id}

\* The editors constructed for id that nobody has closed.
LiveEditorsOf(id) == {e \in EditorsOf(id) : closed[e] = 0}

\* C1: when several callers open an id that has no registered editor (and no
\* close of that id runs meanwhile), every one of them is returned the same
\* editor: an open that began with the id unregistered returns the editor
\* that the opens of that id which returned during its call were given.
C1_ConcurrentOpensShareOneEditor ==
    [][\A p \in Procs :
         (Returns(p) /\ op[p] = "open" /\ fresh[p] /\ result'[p].ok)
            => \A h \in held[arg[p]] \ expect[p] : h = result'[p].val]_vars

\* C1 fails here: two opens of one id both began with the id unregistered,
\* no close of the id was called, and they were returned different editors.
C1_TwoEditorsForOneId ==
    \E p \in Procs :
        /\ pc[p] = "goc_insert"
        /\ op[p] = "open"
        /\ fresh[p]
        /\ \E h \in held[arg[p]] \ expect[p] : h # made[p]

\* C2: at any moment at most one editor exists for an id among the editors
\* that were constructed and not yet closed.
C2_AtMostOneLiveEditorPerId ==
    \A id \in Ids : Cardinality(LiveEditorsOf(id)) <= 1

\* C2 fails here: two editors of one id are alive, and no editor at all was
\* ever evicted or closed.
C2_TwoLiveEditors ==
    \E id \in Ids :
        /\ Cardinality(LiveEditorsOf(id)) >= 2
        /\ pending = {}
        /\ \A e \in Editors : closed[e] = 0

\* C3: once open_database(id) returned an editor, every later open / get of
\* that id returns that same editor, as long as close_database(id) was not
\* called.
C3_LaterCallsReturnTheSameEditor ==
    [][\A p \in Procs :
         (Returns(p) /\ op[p] \in {"open", "get"} /\ result'[p].ok)
            => \A h \in expect[p] : h = result'[p].val]_vars

\* C3 fails here: a get that began after opens of its id had returned, with
\* no close of the id called since, finds another editor than one of those.
C3_GetFindsAnotherEditor ==
    \E p \in Procs :
        /\ pc[p] = "get_match"
        /\ found[p] # NoEditor
        /\ \E h \in expect[p] : h # found[p]

\* C4: an editor returned by k successful opens stays registered, and is not
\* closed, until close_database was called k times for its id.
C4_RegisteredUntilEveryOpenIsClosed ==
    \A id \in Ids :
        (owed[id] > 0 /\ Cardinality(EditorsOf(id)) = 1)
           => \A e \in EditorsOf(id) :
                 /\ Get(grid_editors, id) = e
                 /\ e \notin pending
                 /\ closed[e] = 0

\* C4 fails here: the only editor ever constructed for an id was returned by
\* more opens than closes were run, and it is closed and out of the cache.
C4_ClosedWhileStillOwed ==
    \E id \in Ids :
        /\ owed[id] > 0
        /\ Cardinality(EditorsOf(id)) = 1
        /\ Get(grid_editors, id) = NoEditor
        /\ \A e \in EditorsOf(id) : closed[e] = 1
        /\ \A p \in Procs : pc[p] = "idle"

\* The positions of a task inside open_database.
OpenPcs == {"open_mig", "goc_read", "goc_check", "goc_write", "goc_make", "goc_insert"}

\* C5: a failure of the v1 migration is never the result of open_database:
\* the call returns the cached editor, or else what db_pool(), user_id() and
\* the editor's construction decide, whatever the migration did.
C5_MigrationFailureIsDiscarded ==
    [][\A p \in Procs :
         (Returns(p) /\ pc[p] \in OpenPcs)
            => /\ result'[p].err # "MigrationErr"
               /\ found[p] # NoEditor => result'[p] = Ok(found[p])
               /\ found[p] = NoEditor =>
                    /\ env[p] \in OpenEnvs
                    /\ MakeOutcome(env[p]) = "ok"
                         => made[p] # NoEditor /\ result'[p] = Ok(made[p])
                    /\ MakeOutcome(env[p]) # "ok"
                         => result'[p] = Err(MakeOutcome(env[p]))]_vars

\* C5 happens: the migration failed and the call went on to build the editor
\* it is about to return.
C5_OpenGoesOnAfterFailedMigration ==
    \E p \in Procs : pc[p] = "goc_insert" /\ ~mig[p] /\ made[p] # NoEditor

\* C6: close_database on an id without a registered editor returns Ok(())
\* and changes neither the cache nor any editor.
C6_CloseOfUnregisteredIdIsNoOp ==
    [][\A p \in Procs :
         (Steps(p) /\ op[p] = "close"
            /\ Get(grid_editors, arg[p]) = NoEditor
            /\ (pc[p] = "close_return" => found[p] = NoEditor))
            => /\ grid_editors' = grid_editors
               /\ pending' = pending
               /\ closed' = closed
               /\ constructed' = constructed
               /\ Returns(p) => result'[p] = Ok(Unit)]_vars

\* C6 happens: the removal ran on an id that had no entry, while another id
\* had one.
C6_RemoveFoundNoEntry ==
    \E p \in Procs :
        /\ pc[p] = "close_return"
        /\ found[p] = NoEditor
        /\ \E id \in Ids : Get(grid_editors, id) # NoEditor

\* The positions of a task inside create_grid, create_grid_view and
\* create_grid_block.
CreatePcs == {"create_grid", "create_view", "create_block"}

\* C7: create_grid, create_grid_view and create_grid_block never change the
\* editor cache: no editor is built, registered, evicted or closed by them.
C7_CreateLeavesTheCacheAlone ==
    [][\A p \in Procs :
         (Steps(p) /\ (pc[p] \in CreatePcs \/ pc'[p] \in CreatePcs))
            => /\ grid_editors' = grid_editors
               /\ constructed' = constructed
               /\ pending' = pending
               /\ closed' = closed]_vars

\* C7 happens: create_grid succeeded for an id that was never opened and the
\* id has no cached editor, while another id has one.
C7_CreatedButNotCached ==
    /\ grid_revs["a"] # <<>>
    /\ EditorsOf("a") = {}
    /\ Get(grid_editors, "a") = NoEditor
    /\ Get(grid_editors, "b") # NoEditor
    /\ \A p \in Procs : pc[p] = "idle"

\* C8: create_grid(id, revs) returns Ok(()) with the log of id being exactly
\* revs when the pool, the user id and the reset are there; it returns the
\* reset's error when the reset fails; and without a pool or a user id it
\* returns an error, performs no reset and leaves every log as it was.
C8_CreateGridResult ==
    [][\A p \in Procs :
         (Returns(p) /\ pc[p] = "create_grid")
            => LET en == env[p] IN
               /\ (en.pool /\ en.user /\ en.last = "ok")
                    => /\ result'[p] = Ok(Unit)
                       /\ grid_revs'[arg[p]] = revs[p]
                       /\ reset_calls' = 1
               /\ (en.pool /\ en.user /\ en.last # "ok")
                    => /\ result'[p] = Err(en.last)
                       /\ reset_calls' = 1
               /\ (~en.pool \/ ~en.user)
                    => /\ ~result'[p].ok
                       /\ result'[p].err \in {"PoolErr", "UserErr"}
                       /\ reset_calls' = 0
                       /\ grid_revs' = grid_revs
               /\ \A id \in Ids \ {arg[p]} : grid_revs'[id] = grid_revs[id]
               /\ block_revs' = block_revs
               /\ view_revs' = view_revs]_vars

\* C8 happens: a create_grid replaced an earlier log of the id by the two
\* revisions it was given, in their order.
C8_LogReplaced ==
    /\ result[Creator] = Ok(Unit)
    /\ calls >= 2
    /\ grid_revs["a"] = <<Revision("a", "y"), Revision("a", "x")>>
    /\ grid_revs["b"] = <<Revision("b", "x")>>

(***************************************************************************)
(* Properties of make_database_view_data.                                  *)
(***************************************************************************)
\* The blocks of the build context, and the rows they hold.
Blocks == build_context.blocks
RowsOfContext ==
    {r \in AllRowIds : r[1] <= Len(Blocks) /\ r[2] <= Len(Blocks[r[1]].rows)}

\* The entries of the history of one kind.
EventsOf(kind) == {k \in 1..Len(boot_log) : boot_log[k].kind = kind}

\* The log holds exactly one revision, keyed by id, of the given kind.
OneRevision(log, id, kind) ==
    /\ Len(log[id]) = 1
    /\ log[id][1].object_id = id
    /\ log[id][1].bytes.kind = kind

\* The log of id holds no revision of the given kind.
NoRevision(log, id, kind) ==
    \A k \in 1..Len(log[id]) : log[id][k].bytes.kind # kind

\* The routine returned Ok and no index write failed on its way.
CompletedWithoutFailure ==
    /\ boot_pc = "done"
    /\ boot_result.ok
    /\ \A k \in 1..Len(boot_log) : boot_log[k].ok

\* C9: a bootstrap that completes without any failure has committed exactly
\* one revision per block under the block's id, one document revision under
\* the document id (the view id) naming the blocks, one view revision under
\* the view id, and the index maps every row of every block to the block
\* that contains it, with as many entries as there are rows.
C9_BootstrapCommitsEveryPart ==
    CompletedWithoutFailure =>
        /\ \A i \in 1..Len(Blocks) :
              /\ OneRevision(block_revs, Blocks[i].block_id, "block")
              /\ block_revs[Blocks[i].block_id][1].bytes = BlockDeltaBytes(Blocks[i])
        /\ Cardinality(EventsOf("block")) = Len(Blocks)
        /\ \A id \in BlockIds \ {Blocks[i].block_id : i \in 1..Len(Blocks)} :
              NoRevision(block_revs, id, "block")
        /\ OneRevision(grid_revs, view_id, "grid")
        /\ grid_revs[view_id][1].bytes.blocks = [i \in 1..Len(Blocks) |-> Blocks[i].block_id]
        /\ Cardinality(EventsOf("grid")) = 1
        /\ \A id \in Ids \ {view_id} : NoRevision(grid_revs, id, "grid")
        /\ OneRevision(view_revs, view_id, "view")
        /\ Cardinality(EventsOf("view")) = 1
        /\ \A id \in Ids \ {view_id} : NoRevision(view_revs, id, "view")
        /\ \A i \in 1..Len(Blocks) : \A j \in 1..Len(Blocks[i].rows) :
              block_index[Blocks[i].rows[j].id] = Blocks[i].block_id
        /\ Cardinality({r \in AllRowIds : block_index[r] # NoBlock})
              = Cardinality(RowsOfContext)

\* C9 happens: a bootstrap of MaxBlocks blocks of MaxRows rows each, over logs
\* that held an earlier history, completed without a failure and left one
\* index entry per row.
C9_FullContextCompleted ==
    /\ CompletedWithoutFailure
    /\ Len(Blocks) = MaxBlocks
    /\ \A i \in 1..MaxBlocks : Len(Blocks[i].rows) = MaxRows
    /\ Cardinality({r \in AllRowIds : block_index[r] # NoBlock}) = MaxBlocks * MaxRows
    /\ \E id \in Ids : grid_revs[id] = StaleLog(id)

\* The view payload of the build context is not empty and does not parse.
MalformedView ==
    /\ build_context.grid_view_revision_data # <<>>
    /\ ~FromJson(build_context.grid_view_revision_data).ok

OnlyIndexWritesFailed ==
    /\ \A k \in 1..Len(boot_log) : boot_log[k].kind # "index" => boot_log[k].ok
    /\ ~MalformedView

\* C11: a failed index write never aborts the bootstrap: when nothing but
\* index writes fails (some of them, or all of them), the bootstrap ends with
\* every block revision, the document revision and the view revision
\* committed and returns Ok with the encoded schema payload.
C11_IndexFailuresNeverAbort ==
    /\ (boot_pc = "done" /\ OnlyIndexWritesFailed) =>
          /\ boot_result = BootOk(GridRevDeltaBytes)
          /\ \A i \in 1..Len(Blocks) :
                OneRevision(block_revs, Blocks[i].block_id, "block")
          /\ OneRevision(grid_revs, view_id, "grid")
          /\ OneRevision(view_revs, view_id, "view")
          /\ Cardinality(EventsOf("index")) = Cardinality(RowsOfContext)
    /\ boot_result.err # "IndexErr"

\* C11 happens: every index write of a context of MaxBlocks blocks of MaxRows
\* rows failed, no entry is in the index, and the bootstrap returned Ok.
C11_EveryIndexWriteFailed ==
    /\ boot_pc = "done"
    /\ boot_result.ok
    /\ Cardinality(EventsOf("index")) = MaxBlocks * MaxRows
    /\ \A k \in EventsOf("index") : ~boot_log[k].ok
    /\ \A r \in AllRowIds : block_index[r] = NoBlock

(***************************************************************************)
(* More properties of the editor cache.                                    *)
(***************************************************************************)
\* C12: get_database_editor that finds an editor registered for its id
\* returns that editor at once: no migration step, no construction, no change
\* of the cache; it enters the open path (migration first) only when its
\* lookup found nothing.
C12_GetHitReturnsAtOnce ==
    [][\A p \in Procs :
         (Steps(p) /\ op[p] = "get" /\ pc[p] \in {"get_read", "get_match"})
            => /\ grid_editors' = grid_editors
               /\ constructed' = constructed
               /\ pending' = pending
               /\ closed' = closed
               /\ mig' = mig
               /\ pc[p] = "get_read" =>
                     /\ pc'[p] = "get_match"
                     /\ found'[p] = Get(grid_editors, arg[p])
               /\ (pc[p] = "get_match" /\ found[p] # NoEditor) =>
                     /\ Returns(p)
                     /\ result'[p] = Ok(found[p])
               /\ (pc[p] = "get_match" /\ found[p] = NoEditor) =>
                     /\ pc'[p] = "open_mig"
                     /\ result'[p] = result[p]]_vars

\* C12 happens: a get found the editor registered for its id, while no call
\* of the manager ever constructed more than that editor.
C12_GetFoundRegisteredEditor ==
    \E p \in Procs :
        /\ op[p] = "get"
        /\ pc[p] = "get_match"
        /\ found[p] # NoEditor
        /\ found[p] = Get(grid_editors, arg[p])
        /\ constructed = 1

(***************************************************************************)
(* The order of the steps of make_database_view_data.                      *)
(***************************************************************************)
\* C13: the index entries of every row of every block are all recorded
\* before the initial revision of any block is committed: no index write
\* follows a committed block revision.
C13_EveryRowIndexedBeforeAnyBlock ==
    \A k \in EventsOf("index") : \A m \in EventsOf("block") :
        boot_log[m].ok => k < m

\* C13 fails here: the revision of the first block is committed and a row of
\* the second block is indexed after it.
C13_RowIndexedAfterBlockCommit ==
    /\ Len(Blocks) = 2
    /\ OneRevision(block_revs, Blocks[1].block_id, "block")
    /\ \E k \in EventsOf("index") : \E m \in EventsOf("block") :
          /\ boot_log[m].ok
          /\ boot_log[m].id = Blocks[1].block_id
          /\ boot_log[k].id = Blocks[2].block_id
          /\ m < k

\* The log of id holds a revision of the given kind.
Committed(log, id, kind) == ~NoRevision(log, id, kind)

\* C14: the document revision is committed only after the revisions of all
\* blocks, and the view revision only after the document revision: in every
\* state a committed view revision comes with the document revision and a
\* committed document revision with every block revision, and the commits
\* were attempted in that order.
C14_BlocksThenDocumentThenView ==
    /\ Committed(view_revs, view_id, "view") => Committed(grid_revs, view_id, "grid")
    /\ Committed(grid_revs, view_id, "grid") =>
          \A i \in 1..Len(Blocks) : Committed(block_revs, Blocks[i].block_id, "block")
    /\ \A g \in EventsOf("grid") :
          /\ \A b \in EventsOf("block") : b < g /\ boot_log[b].ok
          /\ Cardinality(EventsOf("block")) = Len(Blocks)
    /\ \A v \in EventsOf("view") :
          \E g \in EventsOf("grid") : g < v /\ boot_log[g].ok

\* C14 happens: the document revision is committed after the revisions of
\* MaxBlocks blocks, and the view revision is not committed yet.
C14_DocumentCommittedBeforeView ==
    /\ boot_pc = "view"
    /\ Len(Blocks) = MaxBlocks
    /\ Committed(grid_revs, view_id, "grid")
    /\ \A i \in 1..Len(Blocks) : Committed(block_revs, Blocks[i].block_id, "block")
    /\ ~Committed(view_revs, view_id, "view")

\* The commits the routine attempted, and those of them that failed.
CommitEvents == {k \in 1..Len(boot_log) : boot_log[k].kind # "index"}
FailedCommits == {k \in CommitEvents : ~boot_log[k].ok}

\* C15: the bootstrap stops at the first failing commit and returns its
\* error: a failed commit is the last thing the routine did; when it is the
\* commit of the k-th block, the blocks before k keep their revision and no
\* revision exists for block k, a later block, the document or the view;
\* when it is the document's commit, every block keeps its revision and no
\* document or view revision exists.
C15_StopsAtFirstFailingCommit ==
    \A f \in FailedCommits :
        LET failed == boot_log[f]
            k == Cardinality(EventsOf("block"))
        IN
          /\ f = Len(boot_log)
          /\ boot_pc = "done"
          /\ boot_result = BootErr(failed.err)
          /\ FailedCommits = {f}
          /\ failed.kind = "block" =>
                /\ failed.id = Blocks[k].block_id
                /\ \A i \in 1..(k - 1) :
                      OneRevision(block_revs, Blocks[i].block_id, "block")
                /\ \A i \in k..Len(Blocks) :
                      NoRevision(block_revs, Blocks[i].block_id, "block")
                /\ NoRevision(grid_revs, view_id, "grid")
                /\ NoRevision(view_revs, view_id, "view")
          /\ failed.kind = "grid" =>
                /\ \A i \in 1..Len(Blocks) :
                      OneRevision(block_revs, Blocks[i].block_id, "block")
                /\ NoRevision(grid_revs, view_id, "grid")
                /\ NoRevision(view_revs, view_id, "view")
          /\ failed.kind = "view" =>
                /\ \A i \in 1..Len(Blocks) :
                      OneRevision(block_revs, Blocks[i].block_id, "block")
                /\ OneRevision(grid_revs, view_id, "grid")
                /\ NoRevision(view_revs, view_id, "view")

\* C15 happens: the commit of the last of MaxBlocks blocks failed with a
\* storage error after the blocks before it were committed.
C15_LastBlockFailed ==
    /\ boot_pc = "done"
    /\ Len(Blocks) = MaxBlocks
    /\ boot_result = BootErr("ResetIoErr")
    /\ Cardinality(EventsOf("block")) = MaxBlocks
    /\ \A i \in 1..(MaxBlocks - 1) : OneRevision(block_revs, Blocks[i].block_id, "block")
    /\ EventsOf("grid") = {}

(***************************************************************************)
(* Teardown of the editors and the lock of the cache.                      *)
(***************************************************************************)
\* No call is running and no spawned teardown is waiting to run.
Quiescent ==
    /\ \A p \in Procs : pc[p] = "idle"
    /\ pending = {}

\* C16: no editor is torn down twice, and none is leaked: when nothing runs
\* any more and close_database(id) was called for every successful
\* open_database(id), every editor that was constructed for id has had its
\* teardown invoked exactly once.
C16_TornDownExactlyOnce ==
    /\ \A e \in Editors : closed[e] <= 1
    /\ Quiescent =>
          \A id \in Ids :
              owed[id] = 0 => \A e \in EditorsOf(id) : closed[e] = 1

\* C16 fails here: two opens and two closes of one id have returned, nothing
\* runs any more, one editor of the id was torn down and another one, out of
\* the cache, never was.
C16_LeakedEditor ==
    /\ Quiescent
    /\ calls = 4
    /\ \E id \in Ids :
          /\ owed[id] = 0
          /\ Get(grid_editors, id) = NoEditor
          /\ \E e1, e2 \in EditorsOf(id) : closed[e1] = 0 /\ closed[e2] = 1

(***************************************************************************)
(* C17                                                                     *)
(***************************************************************************)
\* close_database holds the write guard it took to remove editor e: it has
\* removed e's entry and has not yet reached the end of the statement.
HoldsLockAfterRemoving(p, e) ==
    /\ writer = p
    /\ op[p] = "close"
    /\ pc[p] = "close_return"
    /\ found[p] = e

\* C17: the teardown callback of an evicted editor runs without the cache's
\* lock being held: did_remove of an editor never executes while the
\* close_database that removed that editor still holds the exclusive lock.
C17_TeardownRunsWithoutTheLock ==
    [][\A e \in Editors :
          closed'[e] # closed[e] =>
              ~\E p \in Procs : HoldsLockAfterRemoving(p, e)]_vars

\* did_remove of the editor has run and the close_database that evicted it
\* still holds the write guard.
C17_TornDownUnderTheLock ==
    \E p \in Procs, e \in Editors :
        /\ HoldsLockAfterRemoving(p, e)
        /\ closed[e] = 1
        /\ Get(grid_editors, arg[p]) = NoEditor

(***************************************************************************)
(* C18                                                                     *)
(***************************************************************************)
\* The step in which open_database fails on a miss: `?` returns the error of
\* db_pool(), user_id() or DatabaseRevisionEditor::new out of
\* get_or_create_database_editor.
OpenFailsOnMiss(p) == pc[p] = "goc_make" /\ pc'[p] = "idle"

\* C18: when open_database(id) fails on a cache miss (no storage pool, no
\* user id, or the construction of the editor fails), that error is returned,
\* no step of the call has changed the cache (so an id that was unregistered
\* and that no other open registered meanwhile has no entry), no editor is
\* left constructed or torn down, and the lock is free afterwards, so that
\* the lock steps of later open, get and close calls are not blocked.
C18_FailedOpenLeavesCacheAndLock ==
    [][\A p \in Procs :
          /\ (InOpenDatabase(p) /\ pc'[p] # pc[p] /\ pc[p] # "goc_insert")
                 => grid_editors' = grid_editors
          /\ OpenFailsOnMiss(p) =>
                 /\ found[p] = NoEditor
                 /\ writer = p
                 /\ result'[p] = Err(MakeOutcome(env[p]))
                 /\ result'[p].err \in {"PoolErr", "UserErr", "EditorErr"}
                 /\ UNCHANGED <<grid_editors, constructed, editor_id, pending, closed>>
                 /\ (fresh[p] /\ held[arg[p]] = {})
                        => Get(grid_editors', arg[p]) = NoEditor
                 /\ writer' = NoProc
                 /\ readers' = {}]_vars

\* An open has failed on a miss for want of a user id, no id is registered,
\* no editor was constructed, and the one other call made so far has taken
\* the write lock.
C18_LockTakenAfterFailedOpen ==
    \E p, q \in Procs :
        /\ p # q
        /\ pc[p] = "idle"
        /\ result[p] = Err("UserErr")
        /\ \A id \in Ids : Get(grid_editors, id) = NoEditor
        /\ constructed = 0
        /\ calls = 2
        /\ writer = q
        /\ pc[q] \in {"goc_make", "close_remove"}

(***************************************************************************)
(* C20                                                                     *)
(***************************************************************************)
\* The task has taken the write lock on a miss and has not yet inserted its
\* editor (manager.rs lines 128-131).
Constructing(p) == pc[p] \in {"goc_make", "goc_insert"}

\* The positions from which a step completes a lookup, an insert or a remove
\* on the cache, or ends a section that holds one of its guards.
CacheSteps ==
    {"goc_read", "goc_check", "get_read", "get_match",
     "goc_make", "goc_insert", "close_remove", "close_return"}

\* C20: the construction of an editor on a miss runs entirely under the
\* exclusive lock: a constructing task is the writer and there is no reader,
\* at most one task is constructing, and while it is, no other task completes
\* a lookup, an insert or a remove for any id, and the cache changes by the
\* constructing task's insert only.
C20_ConstructionUnderExclusiveLock ==
    [][\A p \in Procs :
          Constructing(p) =>
              /\ writer = p
              /\ readers = {}
              /\ \A q \in Procs \ {p} :
                    /\ ~Constructing(q)
                    /\ pc'[q] # pc[q] => pc[q] \notin CacheSteps
                    /\ found'[q] = found[q]
              /\ grid_editors' # grid_editors =>
                    /\ pc[p] = "goc_insert"
                    /\ pc'[p] = "idle"
                    /\ grid_editors' = Insert(grid_editors, arg[p], made[p])]_vars

\* One task has constructed its editor and is about to insert it while the
\* other task waits for the write lock to remove the registered editor of
\* the other id.
C20_OthersWaitForConstruction ==
    \E p, q \in Procs :
        /\ pc[p] = "goc_insert"
        /\ made[p] = constructed
        /\ pc[q] = "close_write"
        /\ arg[q] # arg[p]
        /\ Get(grid_editors, arg[q]) # NoEditor
        /\ Get(grid_editors, arg[p]) = NoEditor

(***************************************************************************)
(* C19                                                                     *)
(***************************************************************************)
\* Task p waits for the exclusive lock.
WaitsForWrite(p) == pc[p] \in {"goc_write", "close_write"}

\* C19: the cache lock never deadlocks: under fair scheduling every
\* open_database, get_database_editor and close_database call eventually
\* returns, whatever the other callers do on the same or on other ids, and
\* no caller waits for the exclusive lock while it still holds the shared
\* lock.
C19_EveryCallReturns ==
    /\ \A p \in Procs : (pc[p] # "idle") ~> (pc[p] = "idle")
    /\ [](\A p \in Procs : WaitsForWrite(p) => p \notin readers)

\* A caller that missed waits for the exclusive lock while the other caller
\* holds the shared lock for a lookup of the same id.
C19_WriterWaitsForReader ==
    \E p, q \in Procs :
        /\ pc[p] = "goc_write"
        /\ q \in readers
        /\ pc[q] \in {"goc_check", "get_match"}
        /\ arg[q] = arg[p]
        /\ writer = NoProc

====
